---------------------------- MODULE Spec2Model ----------------------------
(***************************************************************************)
(* A model of weather_crawl (src/src/main.rs): the field decoders, the     *)
(* Record assembler, the timestamp extraction and the fetch loop of main,  *)
(* and the temp-file + sync + rename protocol of write_result_files on a   *)
(* POSIX directory (names, inodes, open file descriptions).                *)
(*                                                                         *)
(* A string is a sequence of characters; a character is a TLA+ string      *)
(* naming it.  ASCII characters name themselves; "U+AC00" (a Hangul        *)
(* syllable), "U+25CF" (the filled circle) and "U+25CB" (the open circle)  *)
(* are three bytes long in UTF-8.                                          *)
(***************************************************************************)
EXTENDS Integers, Sequences, FiniteSets, TLC

VARIABLES
    arg,        \* decoder runs: the input handed to the decoder
    ret,        \* decoder runs: what the call produced
    pc,         \* per run: the position of the process in main / parse_html / write_result_files
    limit,      \* per run: main's `limit`
    attempts,   \* per run: number of reqwest::get calls made
    parses,     \* per run: number of times parse_html was entered
    html,       \* per run: the decoded page handed to parse_html
    observed_at,\* per run: parse_html's `observed_at` (None before it is built)
    result,     \* per run: parse_html's `result` (None before it is built)
    fd,         \* per run: the inode `file` refers to (0: no file open) and its write offset
    resp,       \* per run: the outcome of the last reqwest::get ("none" before the first)
    wres,       \* per run: what write_result_files returned
    phret,      \* per run: the value of the match on the decoded page in main
    stdout,     \* per run: what parse_html printed
    exit,       \* per run: "Running", or how the process ended
    dir,        \* file system: whether the base directory exists
    names,      \* file system: directory entries, file name -> inode
    inodes,     \* file system: inode -> content (a sequence of written chunks)
    previous    \* the content index.json had when the runs started (None: no file)

vars == <<arg, ret, pc, limit, attempts, parses, html, observed_at, result, fd,
          resp, wres, phret, stdout, exit, dir, names, inodes, previous>>

runVars == <<pc, limit, attempts, parses, html, observed_at, result, fd, resp, wres,
            phret, stdout, exit>>
fsVars == <<dir, names, inodes, previous>>

(***************************************************************************)
(* Bounds of the model.                                                    *)
(***************************************************************************)
\* The longest row (in cells) handed to Record::try_from in the decoder runs.
MaxCells == 21
\* The largest number of table rows of a fetched page.
MaxRows == 3
\* The largest number of records of a result handed to two concurrent writers.
MaxConcRecords == 1

(***************************************************************************)
(* Option, Result and strings.                                             *)
(***************************************************************************)
None == <<>>
Some(x) == <<x>>

Digits == {"0", "1", "2", "3", "4", "5", "6", "7", "8", "9"}

DigitVal(c) ==
    CASE c = "0" -> 0 [] c = "1" -> 1 [] c = "2" -> 2 [] c = "3" -> 3 [] c = "4" -> 4
      [] c = "5" -> 5 [] c = "6" -> 6 [] c = "7" -> 7 [] c = "8" -> 8 [] c = "9" -> 9

\* The characters that take three bytes in UTF-8; every other character of the
\* model is ASCII.
WideChars == {"U+AC00", "U+25CF", "U+25CB"}

ByteLen(c) == IF c \in WideChars THEN 3 ELSE 1

WhiteSpace == {" ", "\n"}

RECURSIVE TrimStart(_)
TrimStart(s) ==
    IF Len(s) > 0 /\ s[1] \in WhiteSpace THEN TrimStart(Tail(s)) ELSE s

RECURSIVE TrimEnd(_)
TrimEnd(s) ==
    IF Len(s) > 0 /\ s[Len(s)] \in WhiteSpace
    THEN TrimEnd(SubSeq(s, 1, Len(s) - 1))
    ELSE s

\* str::trim
Trim(s) == TrimEnd(TrimStart(s))

(***************************************************************************)
(* str::parse::<u32>: an optional "+", then one or more decimal digits,    *)
(* accumulated left to right with checked multiplication and addition in   *)
(* 32 bits (the largest value is 4294967295 = 429496729 * 10 + 5).         *)
(* Values from 2^31 on are beyond TLC's integers; no input of the model    *)
(* lies in 2^31 .. 2^32 - 1.                                               *)
(***************************************************************************)
RECURSIVE ParseDigits(_, _)
ParseDigits(s, acc) ==
    IF Len(s) = 0 THEN [ok |-> TRUE, val |-> acc, err |-> ""]
    ELSE IF s[1] \notin Digits THEN [ok |-> FALSE, val |-> 0, err |-> "InvalidDigit"]
    ELSE IF acc > 429496729 \/ (acc = 429496729 /\ DigitVal(s[1]) > 5)
         THEN [ok |-> FALSE, val |-> 0, err |-> "PosOverflow"]
    ELSE ParseDigits(Tail(s), acc * 10 + DigitVal(s[1]))

ParseU32(s) ==
    IF Len(s) = 0 THEN [ok |-> FALSE, val |-> 0, err |-> "Empty"]
    ELSE LET body == IF s[1] = "+" THEN Tail(s) ELSE s
         IN IF Len(body) = 0 THEN [ok |-> FALSE, val |-> 0, err |-> "InvalidDigit"]
            ELSE ParseDigits(body, 0)

(***************************************************************************)
(* Decimal::try_from(&str) followed by .ok(): an optional sign, digits     *)
(* with at most one ".", at least one digit.  The value is kept as         *)
(* rust_decimal keeps it: sign, mantissa digits and scale.                 *)
(***************************************************************************)
DecimalTryFromOk(s) ==
    LET signed == Len(s) > 0 /\ s[1] \in {"+", "-"}
        body   == IF signed THEN Tail(s) ELSE s
        dots   == {i \in 1..Len(body) : body[i] = "."}
        digs   == {i \in 1..Len(body) : body[i] \in Digits}
        mant   == SelectSeq(body, LAMBDA c : c \in Digits)
    IN IF /\ Cardinality(dots) <= 1
          /\ Cardinality(digs) >= 1
          /\ Cardinality(dots) + Cardinality(digs) = Len(body)
       THEN Some([neg      |-> signed /\ s[1] = "-",
                  mantissa |-> mant,
                  scale    |-> IF dots = {} THEN 0
                               ELSE Len(body) - (CHOOSE i \in dots : TRUE)])
       ELSE None

(***************************************************************************)
(* The outcome of a try_from call: a value, an error value, or a panic     *)
(* (the call unwinds and produces nothing).                                *)
(***************************************************************************)
Ok(v) == [kind |-> "Ok", val |-> <<v>>]
Err == [kind |-> "Err", val |-> <<>>]
Panic == [kind |-> "Panic", val |-> <<>>]

\* Height::try_from: s[..s.len() - 1] is a byte slice.  With s empty,
\* s.len() - 1 underflows: a debug build panics on the subtraction, a release
\* build wraps to usize::MAX and the slice panics out of range.  With a last
\* character wider than one byte, s.len() - 1 is not a character boundary and
\* the slice panics.
HeightTryFrom(s) ==
    IF Len(s) = 0 THEN Panic
    ELSE IF ByteLen(s[Len(s)]) > 1 THEN Panic
    ELSE LET p == ParseU32(SubSeq(s, 1, Len(s) - 1))
         IN IF p.ok THEN Ok(p.val) ELSE Err

\* RainStatus::try_from
RainStatusTryFrom(s) ==
    IF s = <<"U+25CF">> THEN "Rain"
    ELSE IF s = <<"U+25CB">> THEN "Clear"
    ELSE IF s = <<".">> THEN "Unavailable"
    ELSE "Unknown"

\* WindDirectionText::try_from
WindDirectionTextTryFrom(s) ==
    IF s = <<"N">> THEN "N"
    ELSE IF s = <<"N", "N", "W">> THEN "NNW"
    ELSE IF s = <<"N", "W">> THEN "NW"
    ELSE IF s = <<"W", "N", "W">> THEN "WNW"
    ELSE IF s = <<"W">> THEN "W"
    ELSE IF s = <<"W", "S", "W">> THEN "WSW"
    ELSE IF s = <<"S", "W">> THEN "SW"
    ELSE IF s = <<"S", "S", "W">> THEN "SSW"
    ELSE IF s = <<"S">> THEN "S"
    ELSE IF s = <<"S", "S", "E">> THEN "SSE"
    ELSE IF s = <<"S", "E">> THEN "SE"
    ELSE IF s = <<"E", "S", "E">> THEN "ESE"
    ELSE IF s = <<"E">> THEN "E"
    ELSE IF s = <<"E", "N", "E">> THEN "ENE"
    ELSE IF s = <<"N", "E">> THEN "NE"
    ELSE IF s = <<"N", "N", "E">> THEN "NNE"
    ELSE IF s = <<"-">> THEN "No"
    ELSE "Unavailable"

\* Rain::try_from, on the seven cells cell[3..10]
RainTryFrom(cell) ==
    [is_raining |-> RainStatusTryFrom(cell[1]),
     rain15     |-> DecimalTryFromOk(cell[2]),
     rain60     |-> DecimalTryFromOk(cell[3]),
     rain3h     |-> DecimalTryFromOk(cell[4]),
     rain6h     |-> DecimalTryFromOk(cell[5]),
     rain12h    |-> DecimalTryFromOk(cell[6]),
     rainday    |-> DecimalTryFromOk(cell[7])]

\* Wind::try_from, on three cells
WindTryFrom(cell) ==
    [direction_code |-> DecimalTryFromOk(cell[1]),
     direction_text |-> WindDirectionTextTryFrom(cell[2]),
     velocity       |-> DecimalTryFromOk(cell[3])]

\* The cell tokenizer at the head of Record::try_from: one trimmed string per
\* child element of the row, in document order.
Cells(tr_elem) == [i \in 1..Len(tr_elem) |-> Trim(tr_elem[i])]

\* A variant of the id field that defaults an unparsable id to zero
\* (`cell[0].parse::<u32>().unwrap_or(0)`).
IdDefaultZero(cell) ==
    LET p == ParseU32(cell[1])
    IN IF p.ok THEN p ELSE [ok |-> TRUE, val |-> 0, err |-> ""]

\* The id field, `cell[0].parse::<u32>()?`: an id that does not parse leaves
\* Record::try_from with the error.
IdOf(cell) == ParseU32(cell[1])

\* The height field, `Height::try_from(cell[2].to_owned()).ok()`
HeightOf(cell) ==
    LET h == HeightTryFrom(cell[3])
    IN IF h.kind = "Panic" THEN Panic
       ELSE Ok(IF h.kind = "Ok" THEN Some(h.val[1]) ELSE None)

(***************************************************************************)
(* Record::try_from.  The fields of the struct expression are evaluated in *)
(* source order; an index or a slice past the end of `cell` panics.        *)
(* Source index k is index k + 1 here.                                     *)
(***************************************************************************)
RecordTryFrom(tr_elem) ==
    LET cell == Cells(tr_elem)
        n == Len(cell)
    IN IF n < 1 THEN Panic                      \* cell[0]
       ELSE IF ~IdOf(cell).ok THEN Err          \* ...parse::<u32>()?
       ELSE IF n < 2 THEN Panic                 \* cell[1]
       ELSE IF n < 3 THEN Panic                 \* cell[2]
       ELSE IF HeightOf(cell).kind = "Panic" THEN Panic
       ELSE IF n < 10 THEN Panic                \* cell[3..10]
       ELSE IF n < 11 THEN Panic                \* cell[10]
       ELSE IF n < 14 THEN Panic                \* cell[11..14]
       ELSE IF n < 17 THEN Panic                \* cell[14..17]
       ELSE IF n < 18 THEN Panic                \* cell[17]
       ELSE IF n < 19 THEN Panic                \* cell[18]
       ELSE IF n < 20 THEN Panic                \* cell[19]
       ELSE Ok([id          |-> IdOf(cell).val,
                name        |-> cell[2],
                height      |-> HeightOf(cell).val[1],
                rain        |-> RainTryFrom(SubSeq(cell, 4, 10)),
                temperature |-> DecimalTryFromOk(cell[11]),
                wind1       |-> WindTryFrom(SubSeq(cell, 12, 14)),
                wind10      |-> WindTryFrom(SubSeq(cell, 15, 17)),
                humidity    |-> DecimalTryFromOk(cell[18]),
                atmospheric |-> DecimalTryFromOk(cell[19]),
                address     |-> cell[20]])

(***************************************************************************)
(* Decoder runs: one call of Height::try_from or of Record::try_from on an *)
(* input drawn from a bounded set.                                         *)
(***************************************************************************)
\* The longest string handed to Height::try_from in the decoder runs.
MaxStrLen == 3

SeqsUpTo(S, n) == UNION {[1..k -> S] : k \in 0..n}

HeightAlphabet == {"0", "1", "m", "x", "U+AC00"}

HeightInputs ==
    SeqsUpTo(HeightAlphabet, MaxStrLen)
        \cup {<<"+", "7", "m">>,
              <<"4", "2", "9", "4", "9", "6", "7", "2", "9", "6", "m">>}

IdCells ==
    {<<"1">>, <<" ", "7", "\n">>, <<"+", "3">>, <<>>, <<"x">>, <<"-", "1">>,
     <<"1", "2", "x">>, <<"4", "2", "9", "4", "9", "6", "7", "2", "9", "6">>}

HeightCells ==
    {<<>>, <<" ">>, <<"m">>, <<"1", "0", "m">>, <<"1", "0">>, <<"x", "m">>,
     <<"1", "0", "U+AC00">>}

FillKinds == {"typical", "empty", "junk", "padded"}

\* The raw text of column i (1-based) of a row of the given kind.
Fill(kind, i) ==
    IF kind = "empty" THEN <<>>
    ELSE IF kind = "junk" THEN <<"x">>
    ELSE IF kind = "padded" THEN <<" ", "-", "3", ".", "2", " ">>
    ELSE IF i \in {2, 20} THEN <<"U+AC00">>
    ELSE IF i = 4 THEN <<"U+25CB">>
    ELSE IF i \in {13, 16} THEN <<"N", "N", "E">>
    ELSE <<"1", "2", ".", "5">>

MkRow(n, id, height, kind) ==
    [i \in 1..n |-> IF i = 1 THEN id ELSE IF i = 3 THEN height ELSE Fill(kind, i)]

RowInputs ==
    {MkRow(n, id, h, k) : n \in 0..MaxCells, id \in IdCells, h \in HeightCells,
                          k \in FillKinds}

(***************************************************************************)
(* parse_html: the timestamp.                                              *)
(***************************************************************************)
\* `dt`: the trimmed texts of the span.ehead elements, joined.
RECURSIVE JoinTrimmed(_)
JoinTrimmed(spans) ==
    IF Len(spans) = 0 THEN <<>> ELSE Trim(Head(spans)) \o JoinTrimmed(Tail(spans))

IsDigits(s) == \A i \in 1..Len(s) : s[i] \in Digits

\* \d{4}\.\d{2}\.\d{2}\.\d{2}:\d{2} matched against the 16 characters from i.
MatchAt(dt, i) ==
    /\ i >= 1 /\ i + 15 <= Len(dt)
    /\ IsDigits(SubSeq(dt, i, i + 3)) /\ dt[i + 4] = "."
    /\ IsDigits(SubSeq(dt, i + 5, i + 6)) /\ dt[i + 7] = "."
    /\ IsDigits(SubSeq(dt, i + 8, i + 9)) /\ dt[i + 10] = "."
    /\ IsDigits(SubSeq(dt, i + 11, i + 12)) /\ dt[i + 13] = ":"
    /\ IsDigits(SubSeq(dt, i + 14, i + 15))

Groups(dt, i) ==
    [year   |-> SubSeq(dt, i, i + 3),
     month  |-> SubSeq(dt, i + 5, i + 6),
     day    |-> SubSeq(dt, i + 8, i + 9),
     hour   |-> SubSeq(dt, i + 11, i + 12),
     minute |-> SubSeq(dt, i + 14, i + 15)]

Min(S) == CHOOSE x \in S : \A y \in S : x <= y

\* The same search without the `$` of the pattern.
CapturesUnanchored(dt) ==
    LET starts == {i \in 1..Len(dt) : MatchAt(dt, i)}
    IN IF starts = {} THEN None ELSE Some(Groups(dt, Min(starts)))

\* re.captures(dt): the leftmost match of the pattern, whose `$` lets a match
\* end only at the end of the text.
Captures(dt) ==
    LET starts == {i \in 1..Len(dt) : MatchAt(dt, i) /\ i + 15 = Len(dt)}
    IN IF starts = {} THEN None ELSE Some(Groups(dt, Min(starts)))

\* format!("{}-{}-{}T{}:{}:00+0900", ...)
FormatObservedAt(cap) ==
    cap.year \o <<"-">> \o cap.month \o <<"-">> \o cap.day \o <<"T">> \o cap.hour
        \o <<":">> \o cap.minute \o <<":", "0", "0", "+", "0", "9", "0", "0">>

(***************************************************************************)
(* parse_html: the records.  filter_map keeps the rows Record::try_from    *)
(* returns Ok for; a row it panics on unwinds the whole collect.           *)
(***************************************************************************)
RECURSIVE FilterMapOk(_)
FilterMapOk(rows) ==
    IF Len(rows) = 0 THEN <<>>
    ELSE LET r == RecordTryFrom(Head(rows))
         IN (IF r.kind = "Ok" THEN <<r.val[1]>> ELSE <<>>) \o FilterMapOk(Tail(rows))

CollectRecords(rows) ==
    IF \E i \in 1..Len(rows) : RecordTryFrom(rows[i]).kind = "Panic"
    THEN Panic
    ELSE Ok(FilterMapOk(rows))

(***************************************************************************)
(* write_result_files: the document and the file system.                   *)
(***************************************************************************)
IndexJson == <<"i", "n", "d", "e", "x", ".", "j", "s", "o", "n">>

\* A variant that opens the canonical file itself for writing.
TempNameIsIndex(res) == IndexJson

\* path.join(&result.observed_at): the name of the file the result is written to.
TempName(res) == res.observed_at

\* One chunk written by serde_json::to_writer.
Chunk(k, s, rec) == [k |-> k, s |-> s, rec |-> rec]

\* serde_json::to_writer(&mut file, result): the chunks it writes, in order.
Serialize(res) ==
    <<Chunk("{", <<>>, <<>>), Chunk("observed_at", res.observed_at, <<>>)>>
        \o [i \in 1..Len(res.records) |-> Chunk("record", <<>>, <<res.records[i]>>)]
        \o <<Chunk("}", <<>>, <<>>)>>

\* A range of a file that was never written reads as zero bytes.
Hole == Chunk("\\0", <<>>, <<>>)

\* write(2) of one chunk at offset off of a file with the given content.
WriteAt(content, off, chunk) ==
    [i \in 1..(IF off + 1 > Len(content) THEN off + 1 ELSE Len(content)) |->
        IF i = off + 1 THEN chunk
        ELSE IF i <= Len(content) THEN content[i]
        ELSE Hole]

NoFile == [ino |-> 0, off |-> 0]

\* What a reader of index.json sees: None when there is no such file.
IndexContent == IF IndexJson \in DOMAIN names THEN Some(inodes[names[IndexJson]]) ELSE None

(***************************************************************************)
(* The pages a fetch may return.                                           *)
(***************************************************************************)
TS0 == <<"2", "0", "2", "3", ".", "0", "4", ".", "0", "1", ".", "0", "9", ":", "0", "0">>
TS1 == <<"2", "0", "2", "3", ".", "0", "4", ".", "0", "1", ".", "0", "9", ":", "3", "0">>
TS2 == <<"2", "0", "2", "3", ".", "0", "4", ".", "0", "1", ".", "1", "0", ":", "0", "0">>

Label == <<"U+AC00", " ">>

Captions ==
    {<<Label \o TS1 \o <<" ">> >>,                  \* the caption of the live page
     <<Label \o TS1, <<"\n">> \o TS2>>,             \* two spans, two timestamps
     <<TS1 \o <<" ">>, <<"K", "S", "T">> >>,         \* text after the timestamp
     <<Label>>,                                      \* no timestamp
     << <<"2", "0", "2", "3", ".", "0", "4", ".", "0", "1", ".", "9", ":", "3", "0">> >>}

RowA == MkRow(20, <<"1">>, <<"1", "0", "m">>, "typical")
RowB == MkRow(20, <<" ", "7", "\n">>, <<"m">>, "junk")
RowHeader == MkRow(20, <<"U+AC00">>, <<"x", "m">>, "empty")
RowShort == MkRow(17, <<"3">>, <<"5", "m">>, "typical")

PageRows == {RowA, RowB, RowHeader, RowShort}

Pages == [spans : Captions, rows : SeqsUpTo(PageRows, MaxRows)]

NoPage == [spans |-> <<>>, rows |-> <<>>]

\* What index.json held before the run: the result of an earlier run.
PreviousResult ==
    [observed_at |-> FormatObservedAt(Groups(TS0, 1)),
     records     |-> FilterMapOk(<<RowA>>)]

\* A file left behind by an earlier run that was interrupted while writing the
\* result of the observation time TS1.
StaleName == FormatObservedAt(Groups(TS1, 1))
StaleContent == <<Chunk("{", <<>>, <<>>), Chunk("observed_at", StaleName, <<>>),
                  Chunk("record", <<>>, FilterMapOk(<<RowA>>))>>

NotCalled == [kind |-> "NotCalled", val |-> <<>>]

NoRuns == <<>>

InitDecode ==
    /\ arg \in [fn : {"Height"}, s : HeightInputs, tr : {<<>>}]
             \cup [fn : {"Record"}, s : {<<>>}, tr : RowInputs]
    /\ ret = NotCalled
    /\ pc = NoRuns /\ limit = NoRuns /\ attempts = NoRuns /\ parses = NoRuns
    /\ html = NoRuns /\ observed_at = NoRuns /\ result = NoRuns /\ fd = NoRuns
    /\ resp = NoRuns /\ wres = NoRuns /\ phret = NoRuns /\ stdout = NoRuns
    /\ exit = NoRuns
    /\ dir = FALSE /\ names = <<>> /\ inodes = <<>> /\ previous = None

CallHeight ==
    /\ arg.fn = "Height" /\ ret = NotCalled
    /\ ret' = HeightTryFrom(arg.s)
    /\ UNCHANGED <<arg, runVars, fsVars>>

CallRecord ==
    /\ arg.fn = "Record" /\ ret = NotCalled
    /\ ret' = RecordTryFrom(arg.tr)
    /\ UNCHANGED <<arg, runVars, fsVars>>

NextDecode == CallHeight \/ CallRecord

SpecDecode == InitDecode /\ [][NextDecode]_vars

(***************************************************************************)
(* One run of the program: main, parse_html and write_result_files, one    *)
(* action per step.  A run that panicked, was interrupted or returned      *)
(* stays where it was.                                                     *)
(***************************************************************************)
\* `let mut limit = 5;`
InitialLimit == 5

\* The processes there may be; those of a behaviour are DOMAIN pc.
RunIds == {1, 2}

Running(r) == r \in DOMAIN exit /\ exit[r] = "Running"

Set(f, r, v) == [f EXCEPT ![r] = v]

\* Without the `break` the loop goes on to its sleep.
NoBreak == "sleep"

\* `break;` after the match on the decoded page: main goes on to `Ok(())`.
AfterPipeline == "return"

\* `while limit > 0 { let resp = reqwest::get(url).await; ... }`: the request
\* errors, answers with a status that is no success, or succeeds.
Get(r) ==
    /\ Running(r) /\ pc[r] = "loop" /\ limit[r] > 0
    /\ attempts' = Set(attempts, r, attempts[r] + 1)
    /\ \/ resp' = Set(resp, r, "Err") /\ pc' = Set(pc, r, "sleep")
       \/ resp' = Set(resp, r, "Status") /\ pc' = Set(pc, r, "sleep")
       \/ resp' = Set(resp, r, "Success") /\ pc' = Set(pc, r, "bytes")
    /\ UNCHANGED <<arg, ret, limit, parses, html, observed_at, result, fd, wres,
                   phret, stdout, exit, fsVars>>

\* `sleep(Duration::from_millis(500)); limit -= 1;`
Sleep(r) ==
    /\ Running(r) /\ pc[r] = "sleep"
    /\ limit' = Set(limit, r, limit[r] - 1)
    /\ pc' = Set(pc, r, "loop")
    /\ UNCHANGED <<arg, ret, attempts, parses, html, observed_at, result, fd, resp,
                   wres, phret, stdout, exit, fsVars>>

\* The loop condition fails: main goes on to `Ok(())`.
LoopEnd(r) ==
    /\ Running(r) /\ pc[r] = "loop" /\ limit[r] = 0
    /\ pc' = Set(pc, r, "return")
    /\ UNCHANGED <<arg, ret, limit, attempts, parses, html, observed_at, result, fd,
                   resp, wres, phret, stdout, exit, fsVars>>

\* `let bytes = r.bytes().await?;`: an error leaves main through `?`.
Bytes(r) ==
    /\ Running(r) /\ pc[r] = "bytes"
    /\ \/ exit' = Set(exit, r, "Err") /\ UNCHANGED <<pc, html>>
       \/ \E page \in Pages :
             /\ html' = Set(html, r, page)
             /\ pc' = Set(pc, r, "decode")
             /\ UNCHANGED exit
    /\ UNCHANGED <<arg, ret, limit, attempts, parses, observed_at, result, fd, resp,
                   wres, phret, stdout, fsVars>>

\* `match WINDOWS_949.decode(&blob, DecoderTrap::Ignore) { Err(_) => false,
\* Ok(html) => parse_html(base, &html) }`
Decode(r) ==
    /\ Running(r) /\ pc[r] = "decode"
    /\ \/ /\ phret' = Set(phret, r, "false")
          /\ pc' = Set(pc, r, AfterPipeline)
          /\ UNCHANGED parses
       \/ /\ parses' = Set(parses, r, parses[r] + 1)
          /\ pc' = Set(pc, r, "captures")
          /\ UNCHANGED phret
    /\ UNCHANGED <<arg, ret, limit, attempts, html, observed_at, result, fd, resp,
                   wres, stdout, exit, fsVars>>

\* parse_html: `re.captures(&dt.as_str()).unwrap()` and the format! of
\* observed_at.  The unwrap of None panics.
ExtractTimestamp(r) ==
    /\ Running(r) /\ pc[r] = "captures"
    /\ LET cap == Captures(JoinTrimmed(html[r].spans))
       IN IF cap = None
          THEN exit' = Set(exit, r, "Panic") /\ UNCHANGED <<pc, observed_at>>
          ELSE /\ observed_at' = Set(observed_at, r, Some(FormatObservedAt(cap[1])))
               /\ pc' = Set(pc, r, "records")
               /\ UNCHANGED exit
    /\ UNCHANGED <<arg, ret, limit, attempts, parses, html, result, fd, resp, wres,
                   phret, stdout, fsVars>>

\* parse_html: `let result = CrawlResult { observed_at, records: ...collect() }`
AssembleResult(r) ==
    /\ Running(r) /\ pc[r] = "records"
    /\ LET c == CollectRecords(html[r].rows)
       IN IF c.kind = "Panic"
          THEN exit' = Set(exit, r, "Panic") /\ UNCHANGED <<pc, result>>
          ELSE /\ result' = Set(result, r, Some([observed_at |-> observed_at[r][1],
                                                  records     |-> c.val[1]]))
               /\ pc' = Set(pc, r, "create_dir_all")
               /\ UNCHANGED exit
    /\ UNCHANGED <<arg, ret, limit, attempts, parses, html, observed_at, fd, resp,
                   wres, phret, stdout, fsVars>>

\* A step of write_result_files fails: `?` returns the error.
Fails(r) ==
    /\ wres' = Set(wres, r, "Err")
    /\ pc' = Set(pc, r, "print")

\* `create_dir_all(path)?;`
CreateDirAll(r) ==
    /\ Running(r) /\ pc[r] = "create_dir_all"
    /\ \/ Fails(r) /\ UNCHANGED dir
       \/ dir' = TRUE /\ pc' = Set(pc, r, "create") /\ UNCHANGED wres
    /\ UNCHANGED <<arg, ret, limit, attempts, parses, html, observed_at, result, fd,
                   resp, phret, stdout, exit, names, inodes, previous>>

\* `let mut file = File::create(path.join(&result.observed_at))?;`: an
\* existing file of that name is truncated, otherwise a new one is created.
Create(r) ==
    /\ Running(r) /\ pc[r] = "create"
    /\ \/ Fails(r) /\ UNCHANGED <<fd, names, inodes>>
       \/ /\ dir
          /\ LET name == TempName(result[r][1])
             IN IF name \in DOMAIN names
                THEN /\ inodes' = [inodes EXCEPT ![names[name]] = <<>>]
                     /\ fd' = Set(fd, r, [ino |-> names[name], off |-> 0])
                     /\ UNCHANGED names
                ELSE /\ inodes' = Append(inodes, <<>>)
                     /\ names' = (name :> (Len(inodes) + 1)) @@ names
                     /\ fd' = Set(fd, r, [ino |-> Len(inodes) + 1, off |-> 0])
          /\ pc' = Set(pc, r, "to_writer")
          /\ UNCHANGED wres
    /\ UNCHANGED <<arg, ret, limit, attempts, parses, html, observed_at, result,
                   resp, phret, stdout, exit, dir, previous>>

\* `serde_json::to_writer(&mut file, result)?;`: one write per step, at the
\* offset of the open file.
ToWriter(r) ==
    /\ Running(r) /\ pc[r] = "to_writer"
    /\ \/ Fails(r) /\ UNCHANGED <<fd, inodes>>
       \/ LET doc == Serialize(result[r][1])
              f == fd[r]
          IN /\ inodes' = [inodes EXCEPT ![f.ino] = WriteAt(@, f.off, doc[f.off + 1])]
             /\ fd' = Set(fd, r, [f EXCEPT !.off = f.off + 1])
             /\ pc' = Set(pc, r, IF f.off + 1 = Len(doc) THEN "sync_all" ELSE "to_writer")
             /\ UNCHANGED wres
    /\ UNCHANGED <<arg, ret, limit, attempts, parses, html, observed_at, result,
                   resp, phret, stdout, exit, dir, names, previous>>

\* `file.sync_all()?;`
SyncAll(r) ==
    /\ Running(r) /\ pc[r] = "sync_all"
    /\ \/ Fails(r)
       \/ pc' = Set(pc, r, "rename") /\ UNCHANGED wres
    /\ UNCHANGED <<arg, ret, limit, attempts, parses, html, observed_at, result, fd,
                   resp, phret, stdout, exit, fsVars>>

\* `rename(path.join(&result.observed_at), path.join("index.json"))?; Ok(())`:
\* the name index.json is made to refer to the file of the old name, which
\* disappears; the rename fails when there is no file of the old name.
Rename(r) ==
    /\ Running(r) /\ pc[r] = "rename"
    /\ \/ Fails(r) /\ UNCHANGED names
       \/ LET name == TempName(result[r][1])
          IN /\ name \in DOMAIN names
             /\ names' = [n \in (DOMAIN names \ {name}) \cup {IndexJson} |->
                             IF n = IndexJson THEN names[name] ELSE names[n]]
             /\ wres' = Set(wres, r, "Ok")
             /\ pc' = Set(pc, r, "print")
    /\ UNCHANGED <<arg, ret, limit, attempts, parses, html, observed_at, result, fd,
                   resp, phret, stdout, exit, dir, inodes, previous>>

\* parse_html: `match write_result_files(base, &result) { Ok(_) =>
\* println!("done"), Err(e) => println!("error: {:?}", e) }; true`
Report(r) ==
    /\ Running(r) /\ pc[r] = "print"
    /\ stdout' = Set(stdout, r, IF wres[r] = "Ok" THEN "done" ELSE "error")
    /\ phret' = Set(phret, r, "true")
    /\ fd' = Set(fd, r, NoFile)
    /\ pc' = Set(pc, r, AfterPipeline)
    /\ UNCHANGED <<arg, ret, limit, attempts, parses, html, observed_at, result,
                   resp, wres, exit, fsVars>>

\* main: `Ok(())`
Return(r) ==
    /\ Running(r) /\ pc[r] = "return"
    /\ exit' = Set(exit, r, "Ok")
    /\ UNCHANGED <<arg, ret, pc, limit, attempts, parses, html, observed_at, result,
                   fd, resp, wres, phret, stdout, fsVars>>

\* The process is killed (a signal, a power loss) wherever it is.
Interrupt(r) ==
    /\ Running(r)
    /\ exit' = Set(exit, r, "Killed")
    /\ UNCHANGED <<arg, ret, pc, limit, attempts, parses, html, observed_at, result,
                   fd, resp, wres, phret, stdout, fsVars>>

\* The base directory before the runs: missing, holding the index.json of an
\* earlier run, or holding that and a file an interrupted run left.
InitFS ==
    \/ dir = FALSE /\ names = <<>> /\ inodes = <<>> /\ previous = None
    \/ /\ dir = TRUE
       /\ names = (IndexJson :> 1)
       /\ inodes = <<Serialize(PreviousResult)>>
       /\ previous = Some(Serialize(PreviousResult))
    \/ /\ dir = TRUE
       /\ names = (IndexJson :> 1) @@ (StaleName :> 2)
       /\ inodes = <<Serialize(PreviousResult), StaleContent>>
       /\ previous = Some(Serialize(PreviousResult))

NoDecoder == [fn |-> "None", s |-> <<>>, tr |-> <<>>]

\* One run, at the start of main.
Init ==
    /\ arg = NoDecoder /\ ret = NotCalled
    /\ pc = <<"loop">> /\ limit = <<InitialLimit>> /\ attempts = <<0>>
    /\ parses = <<0>> /\ html = <<NoPage>> /\ observed_at = <<None>>
    /\ result = <<None>> /\ fd = <<NoFile>> /\ resp = <<"none">>
    /\ wres = <<"none">> /\ phret = <<"none">> /\ stdout = <<"">>
    /\ exit = <<"Running">>
    /\ InitFS

Next ==
    \E r \in RunIds :
        \/ Get(r) \/ Sleep(r) \/ LoopEnd(r) \/ Bytes(r) \/ Decode(r)
        \/ ExtractTimestamp(r) \/ AssembleResult(r)
        \/ CreateDirAll(r) \/ Create(r) \/ ToWriter(r) \/ SyncAll(r) \/ Rename(r)
        \/ Report(r) \/ Return(r) \/ Interrupt(r)

Spec == Init /\ [][Next]_vars

(***************************************************************************)
(* Two overlapping runs on the same directory, each at the call of         *)
(* write_result_files with the result of the page it fetched.              *)
(***************************************************************************)
ConcPages ==
    [spans : {<<Label \o TS1>>, <<Label \o TS2>>},
     rows  : SeqsUpTo({RowA, RowB}, MaxConcRecords)]

ResultOf(page) ==
    [observed_at |-> FormatObservedAt(Captures(JoinTrimmed(page.spans))[1]),
     records     |-> CollectRecords(page.rows).val[1]]

InitConc ==
    /\ arg = NoDecoder /\ ret = NotCalled
    /\ html \in [1..2 -> ConcPages]
    /\ observed_at = [r \in 1..2 |-> Some(ResultOf(html[r]).observed_at)]
    /\ result = [r \in 1..2 |-> Some(ResultOf(html[r]))]
    /\ pc = [r \in 1..2 |-> "create_dir_all"]
    /\ limit = [r \in 1..2 |-> InitialLimit]
    /\ attempts = [r \in 1..2 |-> 1]
    /\ parses = [r \in 1..2 |-> 1]
    /\ fd = [r \in 1..2 |-> NoFile]
    /\ resp = [r \in 1..2 |-> "Success"]
    /\ wres = [r \in 1..2 |-> "none"]
    /\ phret = [r \in 1..2 |-> "none"]
    /\ stdout = [r \in 1..2 |-> ""]
    /\ exit = [r \in 1..2 |-> "Running"]
    /\ InitFS

NextConc ==
    \E r \in RunIds :
        \/ CreateDirAll(r) \/ Create(r) \/ ToWriter(r) \/ SyncAll(r) \/ Rename(r)
        \/ Interrupt(r)

SpecConc == InitConc /\ [][NextConc]_vars

(***************************************************************************)
(* Claims about a run.                                                     *)
(***************************************************************************)
InLoop(r) == Running(r) /\ pc[r] \in {"loop", "sleep"}

\* A measure of the fetch loop that every step of the loop lowers.
LoopRank(r) ==
    IF pc[r] = "loop" THEN 3 * limit[r] + 2
    ELSE IF pc[r] = "sleep" THEN 3 * limit[r] + 1
    ELSE 0

FetchBounded ==
    \A r \in DOMAIN pc :
        /\ attempts[r] <= 5 /\ parses[r] <= 1
        /\ LoopRank(r) >= 0
        /\ InLoop(r) => ENABLED (Get(r) \/ Sleep(r) \/ LoopEnd(r))

\* C10: a run makes at most 5 fetch attempts, each but the first after a fetch
\* that errored or answered without success; parse_html is entered at most
\* once, after a successful response, and nothing that follows it leads to
\* another fetch; the loop ends: while the run is in it a step of it is
\* enabled, and every step of it lowers a measure that is never negative.
C10_BoundedFetchRetry ==
    /\ FetchBounded
    /\ [][/\ FetchBounded'
          /\ \A r \in DOMAIN pc :
               /\ attempts'[r] # attempts[r] =>
                     /\ attempts'[r] = attempts[r] + 1
                     /\ parses[r] = 0
                     /\ resp[r] \in {"none", "Err", "Status"}
                     /\ (resp[r] = "none") = (attempts[r] = 0)
               /\ parses'[r] # parses[r] =>
                     /\ resp[r] = "Success"
                     /\ attempts'[r] = attempts[r]
               /\ (InLoop(r) /\ <<pc[r], limit[r]>> # <<pc'[r], limit'[r]>>) =>
                     LoopRank(r)' < LoopRank(r)]_vars

\* A run that fetched 5 times, the last time with success, wrote its result
\* and returned.
C10_Witness ==
    \E r \in DOMAIN pc :
        /\ exit[r] = "Ok" /\ attempts[r] = 5 /\ parses[r] = 1 /\ wres[r] = "Ok"

PastCaptures(r) == parses[r] >= 1 /\ (pc[r] # "captures" \/ exit[r] = "Panic")

PastRecords(r) == observed_at[r] # None /\ (pc[r] # "records" \/ exit[r] = "Panic")

\* The text YYYY.MM.DD.HH:MM
IsTimestamp(s) ==
    /\ Len(s) = 16
    /\ \A i \in 1..16 :
          IF i \in {5, 8, 11} THEN s[i] = "."
          ELSE IF i = 14 THEN s[i] = ":"
          ELSE s[i] \in Digits

\* YYYY-MM-DDTHH:MM:00+0900 from the digits of YYYY.MM.DD.HH:MM
Reemit(s) ==
    <<s[1], s[2], s[3], s[4], "-", s[6], s[7], "-", s[9], s[10], "T", s[12], s[13],
      ":", s[15], s[16], ":", "0", "0", "+", "0", "9", "0", "0">>

TimestampsIn(dt) ==
    {SubSeq(dt, i, i + 15) :
        i \in {j \in 1..(Len(dt) - 15) : IsTimestamp(SubSeq(dt, j, j + 15))}}

EndsWithTimestamp(dt) ==
    Len(dt) >= 16 /\ IsTimestamp(SubSeq(dt, Len(dt) - 15, Len(dt)))

\* The run stopped at the timestamp: nothing was assembled, no file was
\* created or written, and index.json is as it was.
FatalAtTimestamp(r) ==
    /\ exit[r] = "Panic" /\ pc[r] = "captures"
    /\ observed_at[r] = None /\ result[r] = None
    /\ fd[r] = NoFile /\ wres[r] = "none"
    /\ DOMAIN names \subseteq {IndexJson, StaleName}
    /\ \A n \in DOMAIN names \ {IndexJson} : inodes[names[n]] = StaleContent
    /\ IndexContent = previous

\* C6 as stated: a caption that contains no YYYY.MM.DD.HH:MM is fatal to the
\* run (no record, no temporary file, index.json unchanged), and a caption
\* that contains one yields the re-emitted observed_at.
C6_TimestampAnywhere ==
    \A r \in DOMAIN pc :
        PastCaptures(r) =>
            LET dt == JoinTrimmed(html[r].spans)
            IN IF TimestampsIn(dt) = {}
               THEN FatalAtTimestamp(r)
               ELSE \E s \in TimestampsIn(dt) : observed_at[r] = Some(Reemit(s))

\* C6 as amended: a caption that does not end with YYYY.MM.DD.HH:MM is fatal to
\* the run (no record, no temporary file, index.json unchanged), and a caption
\* that ends with one yields observed_at re-emitted from those last digits.
C6_TimestampAtEnd ==
    \A r \in DOMAIN pc :
        PastCaptures(r) =>
            LET dt == JoinTrimmed(html[r].spans)
            IN IF EndsWithTimestamp(dt)
               THEN observed_at[r] = Some(Reemit(SubSeq(dt, Len(dt) - 15, Len(dt))))
               ELSE FatalAtTimestamp(r)

\* A run stopped at a caption without any timestamp, over an existing index.json.
C6_Witness ==
    \E r \in DOMAIN pc :
        /\ PastCaptures(r) /\ exit[r] = "Panic"
        /\ TimestampsIn(JoinTrimmed(html[r].spans)) = {}
        /\ previous # None

\* C1: with one writer, index.json holds what it held before (or is absent as
\* before) in every state up to the rename, whatever step fails or wherever the
\* run is interrupted, and holds the complete serialization of the new result
\* once the rename has succeeded.
C1_RenameIsTheOnlyChange ==
    \A r \in DOMAIN pc :
        IndexContent = IF wres[r] = "Ok" THEN Some(Serialize(result[r][1])) ELSE previous

\* A rename that replaced an earlier index.json by a new result.
C1_Witness ==
    \E r \in DOMAIN pc :
        wres[r] = "Ok" /\ previous # None /\ IndexContent # previous

\* C5: when write_result_files returns an error, neither parse_html nor main
\* reports success.
C5_WriteFailureSurfaced ==
    \A r \in DOMAIN pc :
        wres[r] = "Err" => (phret[r] # "true" /\ exit[r] # "Ok")

\* C7: for every sequence of rows of a page with a timestamp, a result is
\* produced whose records are the Records of the accepted rows, in row order,
\* a rejected row removing only itself.
C7_RowFiltering ==
    \A r \in DOMAIN pc :
        PastRecords(r) =>
            /\ result[r] # None
            /\ result[r][1].observed_at = observed_at[r][1]
            /\ result[r][1].records = FilterMapOk(html[r].rows)

FirstCellParses(row) == Len(row) >= 1 /\ ParseU32(Trim(row[1])).ok

RECURSIVE ParsedFirstCells(_)
ParsedFirstCells(rows) ==
    IF Len(rows) = 0 THEN <<>>
    ELSE (IF FirstCellParses(Head(rows))
          THEN <<ParseU32(Trim(Head(rows)[1])).val>>
          ELSE <<>>) \o ParsedFirstCells(Tail(rows))

IdsOf(records) == [i \in 1..Len(records) |-> records[i].id]

PersistedIds(content) ==
    LET recs == SelectSeq(content, LAMBDA c : c.k = "record")
    IN [i \in 1..Len(recs) |-> recs[i].rec[1].id]

\* C9: a 20-cell row whose first cell does not parse contributes no record, and
\* no record carries an id put in its place: the ids of the records of a
\* result, and of the records persisted in index.json, are the parsed first
\* cells of the rows whose first cell parses, in row order.
C9_IdNeverDefaulted ==
    \A r \in DOMAIN pc :
        result[r] # None =>
            /\ IdsOf(result[r][1].records) = ParsedFirstCells(html[r].rows)
            /\ wres[r] = "Ok" =>
                  PersistedIds(IndexContent[1]) = ParsedFirstCells(html[r].rows)

\* A persisted result of a page with a 20-cell row whose id does not parse and
\* a row whose id does.
C9_Witness ==
    \E r \in DOMAIN pc :
        /\ wres[r] = "Ok"
        /\ Len(result[r][1].records) >= 1
        /\ \E i \in 1..Len(html[r].rows) :
              Len(html[r].rows[i]) = 20 /\ ~FirstCellParses(html[r].rows[i])

(***************************************************************************)
(* Claims about two concurrent writers.                                    *)
(***************************************************************************)
HoldsTempFile(r) == Running(r) /\ pc[r] \in {"to_writer", "sync_all", "rename"}

\* What a reader of index.json may see under the claim.
CompleteDocuments ==
    {previous} \cup {Some(Serialize(result[r][1])) : r \in DOMAIN pc}

\* C2: two overlapping runs write to temporary files of different names, and
\* index.json holds at every point what it held before or the complete
\* serialization of the result of one of the runs.
C2_ConcurrentWriters ==
    /\ \A r1, r2 \in DOMAIN pc :
          (r1 # r2 /\ HoldsTempFile(r1) /\ HoldsTempFile(r2)) =>
              TempName(result[r1][1]) # TempName(result[r2][1])
    /\ IndexContent \in CompleteDocuments

\* The second half of C2 alone: a reader never sees a torn index.json.
NoTornRead == IndexContent \in CompleteDocuments

(***************************************************************************)
(* Claims about the decoders.                                              *)
(***************************************************************************)
HeightCalled == arg.fn = "Height" /\ ret # NotCalled
RecordCalled == arg.fn = "Record" /\ ret # NotCalled

\* C3: a row with fewer than 20 cells (0 cells included) is rejected by
\* Record::try_from with an error value; the call does not panic.
C3_ShortRowRejected ==
    (RecordCalled /\ Len(arg.tr) < 20) => ret = Err

\* C4: a 20-cell row whose first cell parses as an unsigned integer comes back
\* from Record::try_from as a Record with exactly that id, whatever the other
\* 19 cells hold.
C4_ParseableIdAccepted ==
    (RecordCalled /\ Len(arg.tr) = 20 /\ ParseU32(Trim(arg.tr[1])).ok)
        => /\ ret.kind = "Ok"
           /\ ret.val[1].id = ParseU32(Trim(arg.tr[1])).val

\* C8: Height::try_from never aborts: a string of one or more characters is
\* decoded by removing its last character and parsing the rest as an unsigned
\* integer, and the empty string fails with an error value.
C8_HeightDecoderTotal ==
    HeightCalled =>
        /\ ret.kind \in {"Ok", "Err"}
        /\ Len(arg.s) = 0 => ret = Err
        /\ Len(arg.s) >= 1 =>
              LET p == ParseU32(SubSeq(arg.s, 1, Len(arg.s) - 1))
              IN ret = IF p.ok THEN Ok(p.val) ELSE Err

=============================================================================
